---- MODULE Spec2Model ----
(***************************************************************************)
(* A model of reneel-utils: the edgelist formatter (format_edgelist.py),   *)
(* the run orchestrator (run_reneel.py) and the partition loader           *)
(* (reneelutil/data.py).                                                   *)
(*                                                                         *)
(* A text file is a sequence of lines; a line is the sequence of fields    *)
(* that line.split(sep) yields; a field is a sequence of one-character     *)
(* strings.  A blank line is the empty sequence of fields.  Numbers are    *)
(* written to files with FormatInt (Python's str) and read back with       *)
(* ParseInt (Python's int), so what goes through a file is text.           *)
(***************************************************************************)
EXTENDS Integers, Sequences, FiniteSets, TLC

VARIABLES
    fs,         \* the file system: file name -> sequence of lines
    directed,   \* args.directed of the formatter
    runs,       \* formatter invocations so far: source name -> outcome
    unmapper,   \* what read_key returned for the key file, or "none"
    existing_df,\* the table built by successive format_edgelist.load_partition
    loads,      \* the (nodes, clusters, chi) of each load_partition call so far
    load_status,\* "ok", or the exception that ended the last load_partition
    view_write, \* whether df.loc[i][chi] = x writes into df (a view) or a copy
    args,       \* the command line of run_reneel.py
    it,         \* iterations of the main loop of run_reneel.py begun so far
    pc,         \* run_reneel.py: "loop", "done", or "crashed" by an exception
    executed,   \* the (chi, file, run_number, seed) of each run of the executable
    last,       \* what the last call of run_reneel_and_collect_output did
    missing,    \* the input files of run_reneel.py that do not exist
    tmp_names,  \* the names that mkdtemp may draw for a scratch directory
    cwd,        \* the working directory of the run_reneel.py process
    scratch,    \* the scratch directories that exist
    outdir,     \* the output directory: path -> the runs that wrote it
    job,        \* a formatted edgelist and one run on it, for the loader
    keyfile,    \* the key file of job: its name and its lines
    listing,    \* the clustering directory: file name -> lines
    available,  \* what get_available_clustering returned, once called
    partition_df \* what data.load_partition returned, once called

formatVars == <<fs, directed, runs, unmapper>>
mergeVars == <<existing_df, loads, load_status, view_write>>
runVars ==
    <<args, it, pc, executed, last, missing, tmp_names, cwd, scratch, outdir>>
loaderVars == <<job, keyfile, listing, available, partition_df>>
vars == <<formatVars, mergeVars, runVars, loaderVars>>

(***************************************************************************)
(* Bounds and sample values of the model.                                  *)
(***************************************************************************)
MaxLines == 2

\* node ids that occur in input edgelists (10 has two digits, and sorts
\* after 2 as a number but before it as text)
NodeIds == {1, 2, 10}

\* edge weights that occur in input edgelists
Weights == {1, 2}

\* values of args.skip tried on an input edgelist
SkipChoices == {0, 1}

(***************************************************************************)
(* Text <-> integer conversions.                                           *)
(***************************************************************************)
Digits == <<"0", "1", "2", "3", "4", "5", "6", "7", "8", "9">>

IsDigit(c) == \E d \in 1..10 : Digits[d] = c

DigitVal(c) == (CHOOSE d \in 1..10 : Digits[d] = c) - 1

RECURSIVE DigitsValue(_)
DigitsValue(tok) ==
    IF tok = <<>> THEN 0
    ELSE 10 * DigitsValue(SubSeq(tok, 1, Len(tok) - 1)) + DigitVal(tok[Len(tok)])

\* the text without the '_' that int() allows between digits
NoUnderscores(tok) == SelectSeq(tok, LAMBDA c : c # "_")

\* int(tok): an optional sign followed by decimal digits, with single '_'
\* allowed between digits; any other field of the model raises ValueError
\* (fields hold no blanks)
IsIntLiteral(tok) ==
    LET body == IF tok # <<>> /\ tok[1] \in {"-", "+"} THEN Tail(tok) ELSE tok
    IN  /\ body # <<>>
        /\ IsDigit(body[1])
        /\ IsDigit(body[Len(body)])
        /\ \A i \in 1..Len(body) : IsDigit(body[i]) \/ body[i] = "_"
        /\ \A i \in 1..(Len(body) - 1) : ~(body[i] = "_" /\ body[i + 1] = "_")

ParseInt(tok) ==
    IF tok[1] = "-" THEN 0 - DigitsValue(NoUnderscores(Tail(tok)))
    ELSE IF tok[1] = "+" THEN DigitsValue(NoUnderscores(Tail(tok)))
    ELSE DigitsValue(NoUnderscores(tok))

RECURSIVE FormatNat(_)
FormatNat(n) ==
    IF n < 10 THEN <<Digits[n + 1]>>
    ELSE FormatNat(n \div 10) \o <<Digits[(n % 10) + 1]>>

\* str(n)
FormatInt(n) == IF n < 0 THEN <<"-">> \o FormatNat(0 - n) ELSE FormatNat(n)

(***************************************************************************)
(* AddDict: a dict whose missing keys read as 0 (reading does not insert). *)
(***************************************************************************)
EmptyDict == <<>>

AddDictGet(d, k) == IF k \in DOMAIN d THEN d[k] ELSE 0

\* d[k] += w
AddDictAdd(d, k, w) ==
    [x \in (DOMAIN d) \cup {k} |-> IF x = k THEN AddDictGet(d, k) + w ELSE d[x]]

Max(a, b) == IF a >= b THEN a ELSE b
Min(a, b) == IF a <= b THEN a ELSE b

\* sorted(S) for a finite set of integers
RECURSIVE Sorted(_)
Sorted(S) ==
    IF S = {} THEN <<>>
    ELSE LET m == CHOOSE x \in S : \A y \in S : x <= y
         IN  <<m>> \o Sorted(S \ {m})

(***************************************************************************)
(* format_edgelist.read_graph                                              *)
(***************************************************************************)
\* the default column indices (0-based) of source, target and weight
u_col == 0
v_col == 1
w_col == 2

\* the state of read_graph before its loop: empty dicts, nothing logged
GraphStart ==
    [status     |-> "ok",
     nodes      |-> EmptyDict,     \* node -> total weight of incident edges
     degrees    |-> EmptyDict,     \* node -> number of edge lines counted
     edges      |-> EmptyDict,     \* <<u, v>> -> weight
     edge_order |-> <<>>,          \* the keys of edges in insertion order
     critical   |-> <<>>,          \* logging.critical records
     ignored    |-> <<>>]          \* line numbers logged as self-loops

\* AddEdge without the swap to (max, min) of undirected mode
AddEdge_AsWritten(g, cu, cv, w, lineno, dir) ==
    IF cu # cv
    THEN [g EXCEPT
            !.nodes      = AddDictAdd(AddDictAdd(@, cu, w), cv, w),
            !.degrees    = AddDictAdd(AddDictAdd(@, cu, 1), cv, 1),
            !.edge_order = IF <<cu, cv>> \in DOMAIN g.edges
                           THEN @ ELSE Append(@, <<cu, cv>>),
            !.edges      = AddDictAdd(@, <<cu, cv>>, w)]
    ELSE [g EXCEPT !.ignored = Append(@, lineno)]

\* AddEdge without the test u != v: a self-loop is counted like any edge
AddEdge_CountLoops(g, cu, cv, w, lineno, dir) ==
    LET u == IF dir THEN cu ELSE Max(cu, cv)
        v == IF dir THEN cv ELSE Min(cu, cv)
    IN  [g EXCEPT
            !.nodes      = AddDictAdd(AddDictAdd(@, u, w), v, w),
            !.degrees    = AddDictAdd(AddDictAdd(@, u, 1), v, 1),
            !.edge_order = IF <<u, v>> \in DOMAIN g.edges
                           THEN @ ELSE Append(@, <<u, v>>),
            !.edges      = AddDictAdd(@, <<u, v>>, w)]

\* the body of the loop for one line that is not blank and that split and
\* converted: canonicalise, then count the edge or ignore the self-loop
AddEdge(g, cu, cv, w, lineno, dir) ==
    LET u == IF dir THEN cu ELSE Max(cu, cv)
        v == IF dir THEN cv ELSE Min(cu, cv)
    IN  IF u # v
        THEN [g EXCEPT
                !.nodes      = AddDictAdd(AddDictAdd(@, u, w), v, w),
                !.degrees    = AddDictAdd(AddDictAdd(@, u, 1), v, 1),
                !.edge_order = IF <<u, v>> \in DOMAIN g.edges
                               THEN @ ELSE Append(@, <<u, v>>),
                !.edges      = AddDictAdd(@, <<u, v>>, w)]
        ELSE [g EXCEPT !.ignored = Append(@, lineno)]

\* one iteration of the loop: line number lineno (1-based after the skipped
\* header), reported as lineno + skip
ReadLine(g, line, lineno, skip, dir) ==
    IF line = <<>>
    THEN g
    ELSE IF Len(line) <= Max(u_col, Max(v_col, w_col))
    THEN \* ls[...] raises IndexError: caught, logged, exit(1)
         [g EXCEPT !.status   = "exit",
                   !.critical = Append(@, [lineno |-> lineno + skip,
                                           line   |-> line])]
    ELSE IF ~ /\ IsIntLiteral(line[u_col + 1])
              /\ IsIntLiteral(line[v_col + 1])
              /\ IsIntLiteral(line[w_col + 1])
    THEN \* convert / weight_convert raise outside the try block
         [g EXCEPT !.status = "ValueError"]
    ELSE AddEdge(g, ParseInt(line[u_col + 1]), ParseInt(line[v_col + 1]),
                 ParseInt(line[w_col + 1]), lineno + skip, dir)

RECURSIVE ReadLines(_, _, _, _, _)
ReadLines(g, lines, i, skip, dir) ==
    IF i > Len(lines) \/ g.status # "ok" THEN g
    ELSE ReadLines(ReadLine(g, lines[i], i, skip, dir), lines, i + 1, skip, dir)

\* read_graph(source, skip=skip, directed=dir) on the lines of source
read_graph(lines, skip, dir) ==
    ReadLines(GraphStart, SubSeq(lines, skip + 1, Len(lines)), 1, skip, dir)

(***************************************************************************)
(* The writers and read_key of format_edgelist.py                          *)
(***************************************************************************)
\* Mapper with enumerate's default start of 0
Mapper_FromZero(nodes) ==
    LET s == Sorted(DOMAIN nodes)
    IN  [v \in DOMAIN nodes |-> (CHOOSE i \in 1..Len(s) : s[i] = v) - 1]

\* mapper = {v: i for i, v in enumerate(sorted(nodes), start=1)}
Mapper(nodes) ==
    LET s == Sorted(DOMAIN nodes)
    IN  [v \in DOMAIN nodes |-> CHOOSE i \in 1..Len(s) : s[i] = v]

\* write_edges that writes the original ids instead of the mapped ones
write_edges_Unmapped(edges, edge_order, mapper) ==
    [i \in 1..Len(edge_order) |->
        LET e == edge_order[i]
        IN  <<FormatInt(e[1]), FormatInt(e[2]), FormatInt(edges[e])>>]

write_edges(edges, edge_order, mapper) ==
    [i \in 1..Len(edge_order) |->
        LET e == edge_order[i]
        IN  <<FormatInt(mapper[e[1]]), FormatInt(mapper[e[2]]),
              FormatInt(edges[e])>>]

write_simple_key(nodes) ==
    LET s == Sorted(DOMAIN nodes)
    IN  [i \in 1..Len(s) |-> <<FormatInt(s[i])>>]

write_info(nodes, edges) ==
    << <<FormatInt(Cardinality(DOMAIN nodes)),
         FormatInt(Cardinality(DOMAIN edges))>> >>

write_degree(nodes, degrees) ==
    LET s == Sorted(DOMAIN nodes)
    IN  [i \in 1..Len(s) |->
            <<FormatInt(AddDictGet(degrees, s[i])), FormatInt(nodes[s[i]])>>]

\* read_key(key_file): each non-blank line is read as original_id formatted_id
RECURSIVE ReadKeyLines(_, _, _)
ReadKeyLines(lines, i, acc) ==
    IF i > Len(lines) \/ acc.status # "ok" THEN acc
    ELSE LET l == lines[i]
         IN  IF l = <<>> THEN ReadKeyLines(lines, i + 1, acc)
             ELSE IF Len(l) < 2
             THEN [status |-> "IndexError", map |-> EmptyDict]
             ELSE IF ~ (IsIntLiteral(l[2]) /\ IsIntLiteral(l[1]))
             THEN [status |-> "ValueError", map |-> EmptyDict]
             ELSE ReadKeyLines(lines, i + 1,
                      [acc EXCEPT !.map =
                          [k \in (DOMAIN @) \cup {ParseInt(l[2])} |->
                              IF k = ParseInt(l[2]) THEN ParseInt(l[1])
                              ELSE @[k]]])

read_key(lines) == ReadKeyLines(lines, 1, [status |-> "ok", map |-> EmptyDict])

(***************************************************************************)
(* format_edgelist.load_partition: a table (DataFrame) is its index, its   *)
(* column labels and its cells; a cell that is missing from `cell` is NaN. *)
(* A label keeps the object it was made from: the text of a chi given as a *)
(* number is not equal to the same text given as a string.  A text is its  *)
(* sequence of '_'-separated parts.                                        *)
(***************************************************************************)
NoTable == [exists |-> FALSE, index |-> {}, columns |-> {}, cell |-> <<>>]

\* the label f"..." of a text
StrLabel(text) == [text |-> text, str |-> TRUE]

\* write_key(key_file, mapper): each line is original_id formatted_id
write_key(mapper) ==
    LET s == Sorted(DOMAIN mapper)
    IN  [i \in 1..Len(s) |-> <<FormatInt(s[i]), FormatInt(mapper[s[i]])>>]

\* lines 162-168: the frame of one partition, indexed by original id, with
\* the single column chi; "KeyError" when the partition has a line for which
\* the key has no row
PartitionFrame(keylines, partlines, chi, writes) ==
    LET unm == read_key(keylines)
        rows == DOMAIN unm.map
    IN  IF unm.status # "ok" THEN [status |-> unm.status, df |-> NoTable]
        ELSE IF \E i \in 1..Len(partlines) : i \notin rows
        THEN [status |-> "KeyError", df |-> NoTable]
        ELSE IF \E i \in 1..Len(partlines) :
                    partlines[i] = <<>> \/ ~ IsIntLiteral(partlines[i][1])
        THEN [status |-> "ValueError", df |-> NoTable]
        ELSE [status |-> "ok",
              df |-> [exists  |-> TRUE,
                      index   |-> {unm.map[i] : i \in rows},
                      columns |-> {chi},
                      cell    |->
                        [c \in {unm.map[i] : i \in rows} \X {chi} |->
                            LET i == CHOOSE j \in rows : unm.map[j] = c[1]
                            IN  IF writes /\ i <= Len(partlines)
                                THEN ParseInt(partlines[i][1])
                                ELSE 0]]]

\* the labels of merge(..., suffixes=["", f"_{file_stem}"]): a label that
\* both sides have becomes the text f"{x}{suffix}"
LeftLabel(c, left, right) ==
    IF c \in left.columns \cap right.columns THEN StrLabel(c.text) ELSE c

RightLabel(c, left, right, stem) ==
    IF c \in left.columns \cap right.columns
    THEN StrLabel(c.text \o <<stem>>) ELSE c

\* the merge would give two columns the same label
DuplicateLabels(left, right, stem) ==
    \/ \E c, d \in left.columns :
         c # d /\ LeftLabel(c, left, right) = LeftLabel(d, left, right)
    \/ \E c \in left.columns, d \in right.columns :
         LeftLabel(c, left, right) = RightLabel(d, left, right, stem)

\* existing_df.merge(df, left_index=True, right_index=True, how="outer")
OuterMerge(left, right, stem) ==
    LET index == left.index \cup right.index
        lcols == {LeftLabel(c, left, right) : c \in left.columns}
        rcols == {RightLabel(c, left, right, stem) : c \in right.columns}
        lsrc(l) == CHOOSE c \in left.columns : LeftLabel(c, left, right) = l
        rsrc(l) == CHOOSE c \in right.columns :
                        RightLabel(c, left, right, stem) = l
        present ==
            {x \in index \X (lcols \cup rcols) :
                IF x[2] \in lcols
                THEN <<x[1], lsrc(x[2])>> \in DOMAIN left.cell
                ELSE <<x[1], rsrc(x[2])>> \in DOMAIN right.cell}
    IN  [exists  |-> TRUE,
         index   |-> index,
         columns |-> lcols \cup rcols,
         cell    |-> [x \in present |->
                        IF x[2] \in lcols THEN left.cell[<<x[1], lsrc(x[2])>>]
                        ELSE right.cell[<<x[1], rsrc(x[2])>>]]]

\* merged[col] = merged[col].fillna(0).astype(int)
FillColumn(t, col) ==
    [t EXCEPT !.cell =
        [x \in (DOMAIN t.cell) \cup (t.index \X {col}) |->
            IF x \in DOMAIN t.cell THEN t.cell[x] ELSE 0]]

\* lines 169-178
MergeInto(existing, df, chi, stem) ==
    IF ~ existing.exists THEN [status |-> "ok", df |-> df]
    ELSE LET merged == OuterMerge(existing, df, stem)
             suffixed == StrLabel(chi.text \o <<stem>>)
             col == IF suffixed \in merged.columns THEN suffixed
                    ELSE StrLabel(chi.text)
         IN  IF col \notin merged.columns
             THEN [status |-> "KeyError", df |-> existing]
             ELSE [status |-> "ok", df |-> FillColumn(merged, col)]

\* load_partition(file_stem, chi, existing_df=existing)
load_partition(keylines, partlines, chi, stem, existing, writes) ==
    LET one == PartitionFrame(keylines, partlines, chi, writes)
    IN  IF one.status # "ok" THEN [status |-> one.status, df |-> existing]
        ELSE MergeInto(existing, one.df, chi, stem)

(***************************************************************************)
(* run_reneel.py: the main loop and run_reneel_and_collect_output          *)
(***************************************************************************)
MaxChi == 2
MaxFilesArg == 2
MaxRuns == 2
MaxSeeds == 2
MaxEnsemble == 3
MaxCpu == 2

\* the default of ReneelRun.rg_parameter and of --rg-parameter
rg_parameter == 2

\* exit codes of the executable
ReturnCodes == {0, 1}

\* itertools.product(args.chi, args.file, range(args.nruns)): the last
\* factor varies fastest
Product(a) ==
    LET nf == Len(a.file)
        nr == a.nruns
    IN  [k \in 1..(Len(a.chi) * nf * nr) |->
            [chi        |-> a.chi[((k - 1) \div (nf * nr)) + 1],
             file       |-> a.file[(((k - 1) \div nr) % nf) + 1],
             run_number |-> (k - 1) % nr]]

\* SeedAt that never advances in the list of seeds
SeedAt_First(seeds, k) == seeds[1]

\* seed_generator(seeds): the k-th value (k = 1, 2, ...) of cycle(seeds)
SeedAt(seeds, k) == seeds[((k - 1) % Len(seeds)) + 1]

\* PerCpu without the lower limit of 1
PerCpu_Floor(size, n_cpu) == size \div n_cpu

\* max(size // n_cpu, 1)
PerCpu(size, n_cpu) == Max(size \div n_cpu, 1)

\* the test that logs "Using ... ensemble size"
SizeWarning(size, n_cpu) == PerCpu(size, n_cpu) * n_cpu # size

\* the working directory in which run_reneel.py is started
StartDir == "."

\* no path: the default None of ReneelRun.partition_file and results_file
NoPath == [kind |-> "none", file |-> 0, suffix |-> <<>>]

\* _input_file.with_stem(f"{kind}_{_input_file.stem}"), by its name
OutputOf(kind, file) == [kind |-> kind, file |-> file, suffix |-> <<>>]

\* path.with_stem(f"{path.stem}_{seed}-{chi}-{tmp}"), by its name
WithSuffix(path, seed, chi, tmp) ==
    [path EXCEPT !.suffix = <<seed, chi, tmp>>]

\* the prefixes of the associated files that ReneelRun looks for
Prefixes_NoInfo == <<"clean", "degree">>

Prefixes == <<"clean", "degree", "info">>

\* ReneelRun.__post_init__: the exception raised, or "none"
PostInit(file, absent) ==
    IF <<file, "edgelist">> \in absent THEN "FileNotFoundError"
    ELSE IF \E i \in 1..Len(Prefixes) : <<file, Prefixes[i]>> \in absent
         THEN "FileNotFoundError"
         ELSE "none"

NoRun ==
    [chi |-> 0, file |-> 0, run_number |-> 0, seed |-> 0,
     cmd |-> <<>>, rg_warning |-> FALSE, reneel_warning |-> FALSE,
     returncode |-> 0, exit_warning |-> FALSE, copy_attempted |-> FALSE,
     error |-> "none", stage |-> "none", tmpdir |-> "",
     written |-> {}, partition_file |-> NoPath, results_file |-> NoPath,
     cwd |-> StartDir]

\* run_reneel_and_collect_output for the run p with seed, called in the
\* directory dir, when mkdtemp draws the name tmp, the executable returns rc
\* and has (or has not) written its partition file and its results file
RunAndCollect(a, p, seed, dir, tmp, rc, wrote_partition, wrote_results) ==
    LET partition_file == OutputOf("partition", p.file)
        results_file == OutputOf("results", p.file)
        output_partition_file == WithSuffix(partition_file, seed, p.chi, tmp)
        output_results_file == WithSuffix(results_file, seed, p.chi, tmp)
        copy_results == wrote_partition /\ a.keepresults
        error == IF ~wrote_partition THEN "FileNotFoundError"
                 ELSE IF copy_results /\ ~wrote_results
                      THEN "FileNotFoundError"
                      ELSE "none"
    IN  [chi            |-> p.chi,
         file           |-> p.file,
         run_number     |-> p.run_number,
         seed           |-> seed,
         cmd            |-> <<rg_parameter,
                              PerCpu(a.rg_ensemble_size, a.nproc),
                              PerCpu(a.reneel_ensemble_size, a.nproc),
                              seed, p.chi, p.file>>,
         rg_warning     |-> SizeWarning(a.rg_ensemble_size, a.nproc),
         reneel_warning |-> SizeWarning(a.reneel_ensemble_size, a.nproc),
         returncode     |-> rc,
         exit_warning   |-> rc # 0,
         copy_attempted |-> TRUE,
         \* shutil.copy(partition_file, output_partition_file) and
         \* shutil.copy(results_file, output_results_file)
         error          |-> error,
         stage          |-> IF error = "none" THEN "none" ELSE "copy",
         tmpdir         |-> tmp,
         written        |->
             (IF wrote_partition THEN {output_partition_file} ELSE {})
                 \cup (IF copy_results /\ wrote_results
                       THEN {output_results_file} ELSE {}),
         \* the assignments after the with block
         partition_file |-> IF error = "none" THEN partition_file ELSE NoPath,
         results_file   |-> IF error = "none" /\ a.keepresults
                            THEN results_file ELSE NoPath,
         \* os.chdir(tmpdir) ... os.chdir(current_dir)
         cwd            |-> IF error = "none" THEN dir ELSE tmp]

\* the output directory after a call that copied the paths of written
Collect(dir, written, k) ==
    [q \in (DOMAIN dir) \cup written |->
        IF q \in written
        THEN (IF q \in DOMAIN dir THEN Append(dir[q], k) ELSE <<k>>)
        ELSE dir[q]]

\* one iteration of the main loop: the next element of the product and the
\* next seed, a ReneelRun, the call, the line printed to the log file
Iterate ==
    /\ pc = "loop"
    /\ it < Len(Product(args))
    /\ LET p == Product(args)[it + 1]
           seed == SeedAt(args.seed, it + 1)
       IN  IF PostInit(p.file, missing) # "none"
           THEN /\ last' = [NoRun EXCEPT !.chi = p.chi, !.file = p.file,
                                         !.run_number = p.run_number,
                                         !.seed = seed,
                                         !.error = PostInit(p.file, missing),
                                         !.stage = "construct",
                                         !.cwd = cwd]
                /\ pc' = "crashed"
                /\ UNCHANGED <<executed, cwd, scratch, outdir>>
           ELSE \E tmp \in tmp_names \ scratch, rc \in ReturnCodes,
                   wrote_partition \in BOOLEAN,
                   wrote_results \in
                       (IF args.keepresults THEN BOOLEAN ELSE {FALSE}) :
                  LET r == RunAndCollect(args, p, seed, cwd, tmp, rc,
                                         wrote_partition, wrote_results)
                  IN  /\ last' = r
                      /\ executed' = Append(executed,
                             [chi |-> p.chi, file |-> p.file,
                              run_number |-> p.run_number, seed |-> seed])
                      /\ pc' = IF r.error = "none" THEN "loop" ELSE "crashed"
                      /\ cwd' = r.cwd
                      \* the with block removes the directory it made
                      /\ scratch' = (scratch \cup {tmp}) \ {tmp}
                      /\ outdir' = Collect(outdir, r.written, it + 1)
    /\ it' = it + 1
    /\ UNCHANGED <<args, missing, tmp_names, formatVars, mergeVars,
                   loaderVars>>

\* the product is exhausted: the loop ends and the log file is closed
Finish ==
    /\ pc = "loop"
    /\ it = Len(Product(args))
    /\ pc' = "done"
    /\ UNCHANGED <<args, it, executed, last, missing, tmp_names, cwd,
                   scratch, outdir, formatVars, mergeVars, loaderVars>>

\* the i-th of the values given for --chi, of the files and of the seeds
ChiArg(i) == i
FileArg(i) == i
SeedArg(i) == 10 + i

CommandLines ==
    [chi  : {[i \in 1..n |-> ChiArg(i)] : n \in 1..MaxChi},
     file : {[i \in 1..n |-> FileArg(i)] : n \in 1..MaxFilesArg},
     nruns : 0..MaxRuns,
     seed : {[i \in 1..n |-> SeedArg(i)] : n \in 1..MaxSeeds},
     nproc : 1..MaxCpu,
     rg_ensemble_size : 1..MaxEnsemble,
     reneel_ensemble_size : 1..MaxEnsemble,
     keepresults : {FALSE}]

\* the names mkdtemp draws: tmp and eight characters
TmpNames == {"tmpaaaaaaaa", "tmp_0000000"}

MaxRepeats == 2
MaxScratchFiles == 2

\* command lines that differ in the files, the repetitions and -k
ScratchCommandLines ==
    [chi  : {<<ChiArg(1)>>},
     file : {[i \in 1..n |-> FileArg(i)] : n \in 1..MaxScratchFiles},
     nruns : 1..MaxRepeats,
     seed : {<<SeedArg(1)>>, <<SeedArg(1), SeedArg(2)>>},
     nproc : {1},
     rg_ensemble_size : {1},
     reneel_ensemble_size : {1},
     keepresults : BOOLEAN]

\* the edgelist or one associated file of one of the files is absent
MissingChoices(files) ==
    {{}} \cup {{<<files[j], kind>>} :
                  j \in 1..Len(files),
                  kind \in {"edgelist", "clean", "degree", "info"}}

\* run_reneel.py is not running
RunIdle ==
    /\ args = [chi |-> <<>>, file |-> <<>>, nruns |-> 0, seed |-> <<>>,
               nproc |-> 1, rg_ensemble_size |-> 1, reneel_ensemble_size |-> 1,
               keepresults |-> FALSE]
    /\ it = 0
    /\ pc = "idle"
    /\ executed = <<>>
    /\ last = NoRun
    /\ missing = {}
    /\ tmp_names = {}
    /\ cwd = StartDir
    /\ scratch = {}
    /\ outdir = EmptyDict

(***************************************************************************)
(* File names: a name is its sequence of '_'-separated parts, so           *)
(* <<"clean", "data">> is the file clean_data.                             *)
(***************************************************************************)
DataFile == <<"data">>

WithPrefix(prefix, name) == <<prefix>> \o name

\* the files the formatter is run on: an input edgelist, and the clean file
\* made from it
Edgelists == {DataFile, WithPrefix("clean", DataFile)}

(***************************************************************************)
(* Text of file names, and floats.  A float is held as a whole number of   *)
(* units of 10^-FloatDecimals; FormatFloat is Python's repr and ParseFloat *)
(* is float().                                                             *)
(***************************************************************************)
FloatDecimals == 5

RECURSIVE Pow10(_)
Pow10(k) == IF k = 0 THEN 1 ELSE 10 * Pow10(k - 1)

AllDigits(tok) == \A i \in 1..Len(tok) : IsDigit(tok[i])

\* str.split(sep, maxsplit)
RECURSIVE SplitMax(_, _, _)
SplitMax(text, sep, maxsplit) ==
    IF maxsplit = 0 \/ ~ \E i \in 1..Len(text) : text[i] = sep
    THEN <<text>>
    ELSE LET i == CHOOSE j \in 1..Len(text) :
                      /\ text[j] = sep
                      /\ \A k \in 1..(j - 1) : text[k] # sep
         IN  <<SubSeq(text, 1, i - 1)>>
                 \o SplitMax(SubSeq(text, i + 1, Len(text)), sep, maxsplit - 1)

RECURSIVE StripZeros(_)
StripZeros(tok) ==
    IF Len(tok) > 1 /\ tok[Len(tok)] = "0"
    THEN StripZeros(SubSeq(tok, 1, Len(tok) - 1))
    ELSE tok

\* f"{chi}" of a float: repr, which is d.ddd, or de-05 below 0.0001
FormatFloat(x) ==
    LET a == IF x < 0 THEN 0 - x ELSE x
        sign == IF x < 0 THEN <<"-">> ELSE <<>>
        fraction == [i \in 1..FloatDecimals |->
                        Digits[((a \div Pow10(FloatDecimals - i)) % 10) + 1]]
    IN  IF a # 0 /\ a < 10
        THEN sign \o FormatNat(a) \o <<"e", "-">>
                  \o (IF FloatDecimals < 10 THEN <<"0">> ELSE <<>>)
                  \o FormatNat(FloatDecimals)
        ELSE sign \o FormatNat(a \div Pow10(FloatDecimals)) \o <<".">>
                  \o StripZeros(fraction)

\* float(tok) accepts [sign] digits [. digits] [e [sign] digits] with at
\* least one digit before the exponent
IsFloatLiteral(tok) ==
    LET body == IF tok # <<>> /\ tok[1] \in {"-", "+"} THEN Tail(tok) ELSE tok
        me == SplitMax(body, "e", 1)
        m == SplitMax(me[1], ".", 1)
    IN  /\ \A i \in 1..Len(m) : AllDigits(m[i])
        /\ \E i \in 1..Len(m) : m[i] # <<>>
        /\ Len(me) = 2 => /\ IsIntLiteral(me[2])
                          /\ "_" \notin {me[2][i] : i \in 1..Len(me[2])}

ParseFloat(tok) ==
    LET body == IF tok[1] \in {"-", "+"} THEN Tail(tok) ELSE tok
        me == SplitMax(body, "e", 1)
        m == SplitMax(me[1], ".", 1)
        frac == IF Len(m) = 2 THEN m[2] ELSE <<>>
        units == DigitsValue(m[1]) * Pow10(FloatDecimals)
                    + DigitsValue(frac) * Pow10(FloatDecimals - Len(frac))
        e == IF Len(me) = 2 THEN ParseInt(me[2]) ELSE 0
        a == IF e >= 0 THEN units * Pow10(e) ELSE units \div Pow10(0 - e)
    IN  IF tok[1] = "-" THEN 0 - a ELSE a

\* Path(name).suffix: from the last '.', unless that is the first or the
\* last character of the name
PathSuffix(name) ==
    LET dots == {i \in 2..(Len(name) - 1) : name[i] = "."}
    IN  IF dots = {} THEN <<>>
        ELSE SubSeq(name, CHOOSE i \in dots : \A j \in dots : j <= i,
                    Len(name))

\* Path(name).stem
PathStem(name) == SubSeq(name, 1, Len(name) - Len(PathSuffix(name)))

\* Path(name).with_stem(stem).name
with_stem(name, stem) == stem \o PathSuffix(name)

\* "partition", "results" and "key" as text
KindText(kind) ==
    CASE kind = "partition" -> <<"p", "a", "r", "t", "i", "t", "i", "o", "n">>
      [] kind = "results"   -> <<"r", "e", "s", "u", "l", "t", "s">>
      [] kind = "key"       -> <<"k", "e", "y">>

\* run_reneel.py: the name of the copy in the output directory of the
\* partition (or results) file of a run
OutputFileName(kind, input_name, seed, chi, tmp) ==
    LET file == with_stem(input_name,
                          KindText(kind) \o <<"_">> \o PathStem(input_name))
        tmp_suffix == FormatInt(seed) \o <<"-">> \o FormatFloat(chi)
                          \o <<"-">> \o tmp
    IN  with_stem(file, PathStem(file) \o <<"_">> \o tmp_suffix)

\* format_edgelist.py: the name of the key file written for an edgelist
KeyFileName(input_name) ==
    with_stem(input_name, KindText("key") \o <<"_">> \o PathStem(input_name))

\* data._get_filename_parts(path)
get_filename_parts(name) == SplitMax(PathStem(name), "_", 2)

\* what the loader reads in a name: type, name, seed, chi and id, or the
\* exception of the unpacking or of int() and float()
ParseSuffix(parts) ==
    LET info == SplitMax(parts[3], "-", 2)
    IN  IF Len(info) # 3 THEN [status |-> "ValueError"]
        ELSE IF ~ IsIntLiteral(info[1]) THEN [status |-> "ValueError"]
        ELSE IF ~ IsFloatLiteral(info[2]) THEN [status |-> "ValueError"]
        ELSE [status |-> "ok", type |-> parts[1], name |-> parts[2],
              seed |-> ParseInt(info[1]), chi |-> ParseFloat(info[2]),
              tmp |-> info[3]]

\* the body of the loop of get_available_clustering for one file name:
\* the row appended to available, or "skipped"
AvailableEntry(name) ==
    LET parts == get_filename_parts(name)
    IN  IF Len(parts) # 3 THEN [status |-> "skipped"]
        ELSE IF ParseSuffix(parts).status # "ok" THEN [status |-> "skipped"]
        ELSE ParseSuffix(parts)

(***************************************************************************)
(* reneelutil/data.py: load_partition and get_available_clustering         *)
(***************************************************************************)
\* a line of a key or partition file as int(line.strip()) takes it
LineIsInt(line) == Len(line) = 1 /\ IsIntLiteral(line[1])

\* ZipLines that numbers the rows by position instead of reading the key
ZipLines_ByPosition(keylines, partlines) ==
    [i \in 1..Min(Len(keylines), Len(partlines)) |->
        <<i, ParseInt(partlines[i][1])>>]

\* [(int(key.strip()), int(cluster.strip())) for key, cluster in zip(...)]
ZipLines(keylines, partlines) ==
    [i \in 1..Min(Len(keylines), Len(partlines)) |->
        <<ParseInt(keylines[i][1]), ParseInt(partlines[i][1])>>]

NoFrame ==
    [df |-> [status |-> "none"], partition_file |-> <<>>,
     include_seed |-> FALSE]

\* load_partition(key_file, partition_file, include_seed): the table as its
\* rows (index, value) in order and its column labels, or the exception
data_load_partition(key_name, part_name, keylines, partlines, include_seed) ==
    LET key_parts == get_filename_parts(key_name)
        partition_parts == get_filename_parts(part_name)
        n == Min(Len(keylines), Len(partlines))
    IN  IF Len(key_parts) # 2 \/ Len(partition_parts) # 3
        THEN [status |-> "ValueError"]
        ELSE IF \/ key_parts[1] # KindText("key")
                \/ partition_parts[1] # KindText("partition")
                \/ key_parts[2] # partition_parts[2]
        THEN [status |-> "AssertionError"]
        ELSE IF ParseSuffix(partition_parts).status # "ok"
        THEN [status |-> ParseSuffix(partition_parts).status]
        ELSE IF \E i \in 1..n : ~ LineIsInt(keylines[i])
                                   \/ ~ LineIsInt(partlines[i])
        THEN [status |-> "ValueError"]
        \* DataFrame([]) has no column 0 for set_index(0)
        ELSE IF n = 0 THEN [status |-> "KeyError"]
        ELSE LET name == ParseSuffix(partition_parts)
             IN  [status     |-> "ok",
                  rows       |-> ZipLines(keylines, partlines),
                  columns    |-> <<IF include_seed
                                   THEN <<name.chi, name.seed>>
                                   ELSE <<name.chi>> >>,
                  index_name |-> "bodyId"]

\* sample edgelist file names: d.t, a_5.t and d
InputNames ==
    {<<"d", ".", "t">>, <<"a", "_", "5", ".", "t">>, <<"d">>}

SeedValues == {11, 0 - 11}

\* 0.0, 0.5, 1e-05 and -0.5
ChiValues == {0, 5 * Pow10(FloatDecimals - 1), 1,
              0 - 5 * Pow10(FloatDecimals - 1)}

\* names of scratch directories, as text
TmpTexts ==
    {<<"t", "m", "p", "a", "a", "a", "a", "a", "a", "a", "a">>,
     <<"t", "m", "p", "_", "0", "0", "0", "0", "0", "0", "0">>}

\* the node sets of formatted graphs: none, or at least two nodes
Jobs ==
    [file : InputNames, seed : SeedValues, chi : ChiValues, tmp : TmpTexts,
     nodes : {S \in SUBSET NodeIds : Cardinality(S) # 1}]

NoJob == [file |-> <<>>, seed |-> 0, chi |-> 0, tmp |-> <<>>, nodes |-> {}]

\* the nodes of job as the dict that read_graph returns
NodeDict(j) == [v \in j.nodes |-> 0]

\* the executable has written one cluster per node; run_reneel.py copies
\* the partition file to the output directory under its suffixed name
CollectOutput ==
    /\ job # NoJob
    /\ listing = EmptyDict
    /\ \E clusters \in [1..Cardinality(job.nodes) -> {1, 2}] :
         listing' =
            [n \in {OutputFileName("partition", job.file, job.seed,
                                   job.chi, job.tmp)} |->
                [i \in 1..Cardinality(job.nodes) |->
                    <<FormatInt(clusters[i])>>]]
    /\ UNCHANGED <<job, keyfile, available, partition_df,
                   formatVars, mergeVars, runVars>>

\* get_available_clustering(clustering_dir)
GetAvailableClustering ==
    /\ listing # EmptyDict
    /\ ~ available.done
    /\ available' =
          [done |-> TRUE,
           rows |-> {e \in {AvailableEntry(n) : n \in DOMAIN listing} :
                        e.status = "ok"}]
    /\ UNCHANGED <<job, keyfile, listing, partition_df,
                   formatVars, mergeVars, runVars>>

\* load_partition(key_file, partition_file, include_seed)
DataLoadPartition ==
    /\ listing # EmptyDict
    /\ partition_df = NoFrame
    /\ \E n \in DOMAIN listing, include_seed \in BOOLEAN :
         partition_df' =
            [df |-> data_load_partition(keyfile.name, n, keyfile.lines,
                                        listing[n], include_seed),
             partition_file |-> n,
             include_seed |-> include_seed]
    /\ UNCHANGED <<job, keyfile, listing, available,
                   formatVars, mergeVars, runVars>>

\* the loader is not in use
LoaderIdle ==
    /\ job = NoJob
    /\ keyfile = [name |-> <<>>, lines |-> <<>>]
    /\ listing = EmptyDict
    /\ available = [done |-> FALSE, rows |-> {}]
    /\ partition_df = NoFrame

(***************************************************************************)
(* format_for_reneel, for one file of args.file                            *)
(***************************************************************************)
\* the files written for a graph that read_graph returned
Outputs(src, g) ==
    LET mapper == Mapper(g.nodes)
    IN  [n \in {WithPrefix("clean", src), WithPrefix("key", src),
                WithPrefix("info", src), WithPrefix("degree", src)} |->
            IF n = WithPrefix("clean", src)
                THEN write_edges(g.edges, g.edge_order, mapper)
            ELSE IF n = WithPrefix("key", src)
                THEN write_simple_key(g.nodes)
            ELSE IF n = WithPrefix("info", src)
                THEN write_info(g.nodes, g.edges)
            ELSE write_degree(g.nodes, g.degrees)]

\* the record kept of one invocation
Outcome(g, skip) ==
    IF g.status = "ok"
    THEN [status |-> "ok", returned |-> TRUE, skip |-> skip,
          nodes |-> g.nodes, degrees |-> g.degrees, edges |-> g.edges,
          mapper |-> Mapper(g.nodes),
          critical |-> g.critical, ignored |-> g.ignored]
    ELSE [status |-> g.status, returned |-> FALSE, skip |-> skip,
          nodes |-> EmptyDict, degrees |-> EmptyDict, edges |-> EmptyDict,
          mapper |-> EmptyDict,
          critical |-> g.critical, ignored |-> g.ignored]

Overwrite(files, new) ==
    [n \in (DOMAIN files) \cup (DOMAIN new) |->
        IF n \in DOMAIN new THEN new[n] ELSE files[n]]

FormatForReneel(src) ==
    /\ src \in DOMAIN fs
    /\ src \notin DOMAIN runs
    /\ \E skip \in (IF src = DataFile THEN SkipChoices ELSE {0}) :
         LET g == read_graph(fs[src], skip, directed)
         IN  /\ runs' = Overwrite(runs, [n \in {src} |-> Outcome(g, skip)])
             /\ fs' = IF g.status = "ok"
                      THEN Overwrite(fs, Outputs(src, g))
                      ELSE fs
    /\ UNCHANGED <<directed, unmapper, mergeVars, runVars, loaderVars>>

\* a later use of read_key on the key file the formatter wrote
ReadKey ==
    /\ WithPrefix("key", DataFile) \in DOMAIN fs
    /\ unmapper.status = "none"
    /\ unmapper' = read_key(fs[WithPrefix("key", DataFile)])
    /\ UNCHANGED <<fs, directed, runs, mergeVars, runVars, loaderVars>>

(***************************************************************************)
(* The input edgelists                                                     *)
(***************************************************************************)
BadField == <<"x">>

GoodLines ==
    {<<FormatInt(u), FormatInt(v), FormatInt(w)>> :
        u \in NodeIds, v \in NodeIds, w \in Weights}

\* a blank line, a line with too few columns, and lines with a field that
\* does not convert (one of them a self-loop)
OtherLines ==
    { <<>>,
      <<FormatInt(1), FormatInt(2)>>,
      <<BadField, FormatInt(2), FormatInt(1)>>,
      <<FormatInt(1), FormatInt(2), BadField>>,
      <<FormatInt(2), FormatInt(2), BadField>> }

InputLines == GoodLines \cup OtherLines

\* the example of the specification: (1,2,3), (2,1,4), (1,1,5)
ExampleFile ==
    << <<FormatInt(1), FormatInt(2), FormatInt(3)>>,
       <<FormatInt(2), FormatInt(1), FormatInt(4)>>,
       <<FormatInt(1), FormatInt(1), FormatInt(5)>> >>

InputFiles == UNION {[1..n -> InputLines] : n \in 0..MaxLines} \cup {ExampleFile}

\* nothing loaded yet
MergeIdle ==
    /\ existing_df = NoTable
    /\ loads = <<>>
    /\ load_status = "ok"
    /\ view_write = TRUE

Init ==
    /\ \E f \in InputFiles : fs = [n \in {DataFile} |-> f]
    /\ directed \in BOOLEAN
    /\ runs = EmptyDict
    /\ unmapper = [status |-> "none", map |-> EmptyDict]
    /\ MergeIdle
    /\ RunIdle
    /\ LoaderIdle

Next ==
    \/ \E src \in Edgelists : FormatForReneel(src)
    \/ ReadKey

Spec == Init /\ [][Next]_vars

(***************************************************************************)
(* Loading partitions into one table with format_edgelist.load_partition   *)
(***************************************************************************)
MaxLoads == 2

\* cluster ids the executable writes
Clusters == {1, 2}

\* the chi argument: a string or a number
ChiArgs ==
    {[text |-> <<"0.0">>, str |-> TRUE],
     [text |-> <<"0.5">>, str |-> TRUE],
     [text |-> <<"0.5">>, str |-> FALSE]}

FileStem == "data"

\* one call of load_partition on the key (in write_key's format) and the
\* partition of a run over the nodes S, merged into the table built so far;
\* a call that would give two columns one label is left out
LoadPartition ==
    /\ Len(loads) < MaxLoads
    /\ load_status = "ok"
    /\ \E S \in SUBSET NodeIds, chi \in ChiArgs :
        \E clusters \in [1..Cardinality(S) -> Clusters] :
          LET keylines == write_key(Mapper([v \in S |-> 0]))
              partlines == [i \in 1..Cardinality(S) |-> <<FormatInt(clusters[i])>>]
              frame == PartitionFrame(keylines, partlines, chi, view_write)
              res == load_partition(keylines, partlines, chi, FileStem,
                                    existing_df, view_write)
          IN  /\ ~ (existing_df.exists /\ frame.status = "ok"
                    /\ DuplicateLabels(existing_df, frame.df, FileStem))
              /\ existing_df' = res.df
              /\ load_status' = res.status
              /\ loads' = Append(loads, [nodes |-> S, clusters |-> clusters,
                                         chi |-> chi])
    /\ UNCHANGED <<view_write, formatVars, runVars, loaderVars>>

FormatIdle ==
    /\ fs = EmptyDict
    /\ directed = FALSE
    /\ runs = EmptyDict
    /\ unmapper = [status |-> "none", map |-> EmptyDict]

InitMerge ==
    /\ existing_df = NoTable
    /\ loads = <<>>
    /\ load_status = "ok"
    /\ view_write \in BOOLEAN
    /\ FormatIdle
    /\ RunIdle
    /\ LoaderIdle

NextMerge == LoadPartition

SpecMerge == InitMerge /\ [][NextMerge]_vars

(***************************************************************************)
(* A run of run_reneel.py with seeds given by -s                           *)
(***************************************************************************)
InitRun ==
    /\ args \in CommandLines
    /\ it = 0
    /\ pc = "loop"
    /\ executed = <<>>
    /\ last = NoRun
    /\ missing = {}
    /\ tmp_names = {CHOOSE n \in TmpNames : TRUE}
    /\ cwd = StartDir
    /\ scratch = {}
    /\ outdir = EmptyDict
    /\ FormatIdle
    /\ MergeIdle
    /\ LoaderIdle

NextRun == Iterate \/ Finish

SpecRun == InitRun /\ [][NextRun]_vars

(***************************************************************************)
(* A run of run_reneel.py in which input files may be absent and the      *)
(* scratch directories take any name that is free                          *)
(***************************************************************************)
InitScratch ==
    /\ args \in ScratchCommandLines
    /\ it = 0
    /\ pc = "loop"
    /\ executed = <<>>
    /\ last = NoRun
    /\ missing \in MissingChoices(args.file)
    /\ tmp_names = TmpNames
    /\ cwd = StartDir
    /\ scratch = {}
    /\ outdir = EmptyDict
    /\ FormatIdle
    /\ MergeIdle
    /\ LoaderIdle

NextScratch == Iterate \/ Finish

SpecScratch == InitScratch /\ [][NextScratch]_vars

(***************************************************************************)
(* A formatted edgelist, one run on it, and the loader on its output       *)
(***************************************************************************)
InitLoad ==
    /\ job \in Jobs
    /\ keyfile = [name |-> KeyFileName(job.file),
                  lines |-> write_simple_key(NodeDict(job))]
    /\ listing = EmptyDict
    /\ available = [done |-> FALSE, rows |-> {}]
    /\ partition_df = NoFrame
    /\ FormatIdle
    /\ MergeIdle
    /\ RunIdle

NextLoad == CollectOutput \/ GetAvailableClustering \/ DataLoadPartition

SpecLoad == InitLoad /\ [][NextLoad]_vars

(***************************************************************************)
(* What the claims speak of, stated on the input file itself               *)
(***************************************************************************)
CleanFile == WithPrefix("clean", DataFile)
KeyFile == WithPrefix("key", DataFile)

\* the lines of src after the header lines its invocation skipped
Body(src) == SubSeq(fs[src], runs[src].skip + 1, Len(fs[src]))

Malformed(line) ==
    /\ line # <<>>
    /\ \/ Len(line) < 3
       \/ \E c \in 1..3 : ~ IsIntLiteral(line[c])

\* the node pair a line stands for, in the mode of the invocation
PairOf(line) ==
    LET a == ParseInt(line[1])
        b == ParseInt(line[2])
    IN  IF directed THEN <<a, b>> ELSE <<Max(a, b), Min(a, b)>>

IsSelfLoop(line) ==
    /\ line # <<>>
    /\ ~ Malformed(line)
    /\ ParseInt(line[1]) = ParseInt(line[2])

\* the indices of the lines of src that are edges between two different nodes
EdgeLines(src) ==
    {i \in 1..Len(Body(src)) :
        /\ Body(src)[i] # <<>>
        /\ ~ Malformed(Body(src)[i])
        /\ ~ IsSelfLoop(Body(src)[i])}

RECURSIVE SumWeights(_, _)
SumWeights(lines, I) ==
    IF I = {} THEN 0
    ELSE LET i == CHOOSE x \in I : TRUE
         IN  ParseInt(lines[i][3]) + SumWeights(lines, I \ {i})

NodesOf(src) ==
    UNION {{PairOf(Body(src)[i])[1], PairOf(Body(src)[i])[2]} : i \in EdgeLines(src)}

Completed(src) == src \in DOMAIN runs /\ runs[src].status = "ok"

\* C1: read_graph returns one edge per distinct non-self-loop node pair, the
\* pair taken as (max, min) when undirected and as written when directed,
\* and its weight is the sum of the weights of all lines of that pair; the
\* example (1,2,3), (2,1,4), (1,1,5) undirected gives the edge (2,1) of
\* weight 7 and nothing else.
C1_EdgesAreSummedPairs ==
    Completed(DataFile) =>
        LET r == runs[DataFile]
            b == Body(DataFile)
            I == EdgeLines(DataFile)
        IN  /\ DOMAIN r.edges = {PairOf(b[i]) : i \in I}
            /\ \A p \in DOMAIN r.edges :
                 r.edges[p] = SumWeights(b, {i \in I : PairOf(b[i]) = p})
            /\ (fs[DataFile] = ExampleFile /\ ~directed /\ r.skip = 0) =>
                 /\ DOMAIN r.edges = {<<2, 1>>}
                 /\ r.edges[<<2, 1>>] = 7
                 /\ DOMAIN r.nodes = {1, 2}

\* two lines u-v and v-u (and a parallel one in the example) were merged
\* into one edge when undirected
C1_Witness ==
    /\ Completed(DataFile)
    /\ ~directed
    /\ \E i, j \in EdgeLines(DataFile) :
         /\ i # j
         /\ Body(DataFile)[i][1] = Body(DataFile)[j][2]
         /\ Body(DataFile)[i][2] = Body(DataFile)[j][1]
    /\ Cardinality(DOMAIN runs[DataFile].edges) = 1

\* C2: the renumbering is a bijection from the nodes that occur in at least
\* one non-self-loop edge onto 1..N, and the i-th smallest node gets i.
C2_RenumberingIsOrderedBijection ==
    Completed(DataFile) =>
        LET m == runs[DataFile].mapper
            S == NodesOf(DataFile)
        IN  /\ DOMAIN m = S
            /\ {m[v] : v \in S} = 1..Cardinality(S)
            /\ \A v, x \in S : v # x => m[v] # m[x]
            /\ \A v \in S : m[v] = Cardinality({x \in S : x <= v})

\* at least two nodes were renumbered, one of them to an id other than its
\* own, and a node that occurs only in a self-loop got none
C2_Witness ==
    /\ Completed(DataFile)
    /\ \E v \in DOMAIN runs[DataFile].mapper : runs[DataFile].mapper[v] # v
    /\ Cardinality(DOMAIN runs[DataFile].mapper) >= 2
    /\ \E i \in 1..Len(Body(DataFile)) :
         /\ IsSelfLoop(Body(DataFile)[i])
         /\ ParseInt(Body(DataFile)[i][1]) \notin DOMAIN runs[DataFile].mapper

NotSelfLoop(line) == ~ IsSelfLoop(line)

\* C3: when read_graph returns, no edge (u,u) exists and nodes, degrees and
\* edges are those of the same lines with the self-loop lines removed.
C3_SelfLoopsChangeNothing ==
    Completed(DataFile) =>
        LET r == runs[DataFile]
            g == read_graph(SelectSeq(Body(DataFile), NotSelfLoop), 0, directed)
        IN  /\ \A e \in DOMAIN r.edges : e[1] # e[2]
            /\ r.edges = g.edges
            /\ r.nodes = g.nodes
            /\ r.degrees = g.degrees

\* a self-loop line was read on a node that also has a real edge
C3_Witness ==
    /\ Completed(DataFile)
    /\ runs[DataFile].ignored # <<>>
    /\ \E i \in 1..Len(Body(DataFile)) :
         /\ IsSelfLoop(Body(DataFile)[i])
         /\ ParseInt(Body(DataFile)[i][1]) \in DOMAIN runs[DataFile].nodes

\* C4: formatting the clean file again (same mode) gives the clean file
\* back: the same pairs with the same weights, one line each, ids unchanged.
C4_ReformatIsIdentity ==
    (Completed(DataFile) /\ Completed(CleanFile)) =>
        LET r1 == runs[DataFile]
            r2 == runs[CleanFile]
        IN  /\ \A v \in DOMAIN r2.mapper : r2.mapper[v] = v
            /\ DOMAIN r2.edges =
                 {<<r1.mapper[e[1]], r1.mapper[e[2]]>> : e \in DOMAIN r1.edges}
            /\ \A e \in DOMAIN r1.edges :
                 r2.edges[<<r1.mapper[e[1]], r1.mapper[e[2]]>>] = r1.edges[e]
            /\ Len(fs[CleanFile]) = Cardinality(DOMAIN r1.edges)
            /\ fs[WithPrefix("clean", CleanFile)] = fs[CleanFile]

\* the first pass merged two lines and renumbered a node, and the second
\* pass ran on its clean file
C4_Witness ==
    /\ Completed(DataFile)
    /\ Completed(CleanFile)
    /\ Cardinality(EdgeLines(DataFile)) > Cardinality(DOMAIN runs[DataFile].edges)
    /\ \E v \in DOMAIN runs[DataFile].mapper : runs[DataFile].mapper[v] # v

\* C5: read_key on the key file the formatter wrote sends each dense id i
\* of 1..N to the original id of the node renumbered to i.
C5_KeyRoundTrip ==
    (Completed(DataFile) /\ unmapper.status # "none") =>
        LET m == runs[DataFile].mapper
        IN  /\ unmapper.status = "ok"
            /\ DOMAIN unmapper.map = 1..Cardinality(DOMAIN m)
            /\ \A v \in DOMAIN m : unmapper.map[m[v]] = v

\* C10: a malformed line makes the formatter abort with the offending line
\* logged, no graph returned and no file written.
C10_MalformedLineIsLoggedAndFatal ==
    \A src \in DOMAIN runs :
        (\E i \in 1..Len(Body(src)) : Malformed(Body(src)[i])) =>
            LET first == CHOOSE i \in 1..Len(Body(src)) :
                            /\ Malformed(Body(src)[i])
                            /\ \A j \in 1..(i - 1) : ~ Malformed(Body(src)[j])
            IN  /\ runs[src].status # "ok"
                /\ ~ runs[src].returned
                /\ \E k \in 1..Len(runs[src].critical) :
                     /\ runs[src].critical[k].line = Body(src)[first]
                     /\ runs[src].critical[k].lineno = first + runs[src].skip
                /\ \A pre \in {"clean", "key", "info", "degree"} :
                     WithPrefix(pre, src) \notin DOMAIN fs

\* C6: merging two partition tables over disjoint node sets gives a table
\* indexed by the union of the nodes in which no entry is missing and every
\* entry of a node absent from the side a column came from is 0.
C6_DisjointMergeIsZeroFilled ==
    (/\ Len(loads) = 2
     /\ loads[1].nodes # {} /\ loads[2].nodes # {}
     /\ loads[1].nodes \cap loads[2].nodes = {}) =>
        /\ load_status = "ok"
        /\ existing_df.index = loads[1].nodes \cup loads[2].nodes
        /\ \A v \in existing_df.index, c \in existing_df.columns :
             <<v, c>> \in DOMAIN existing_df.cell
        /\ \A c \in existing_df.columns : \E k \in 1..2 :
             \A v \in existing_df.index \ loads[k].nodes :
                 <<v, c>> \in DOMAIN existing_df.cell => existing_df.cell[<<v, c>>] = 0

\* the combinations (chi, file, run_number) of the command line
Combinations ==
    {[chi |-> args.chi[i], file |-> args.file[j], run_number |-> r] :
        i \in 1..Len(args.chi), j \in 1..Len(args.file),
        r \in 0..(args.nruns - 1)}

RunsOf(c) ==
    {k \in 1..Len(executed) :
        /\ executed[k].chi = c.chi
        /\ executed[k].file = c.file
        /\ executed[k].run_number = c.run_number}

\* C7 as claimed: after a loop of at least one run per chi and file, every
\* requested chi, seed and file were run together.
C7_EveryChiSeedFileIsRun ==
    (pc = "done" /\ args.nruns >= 1) =>
        \A i \in 1..Len(args.chi), j \in 1..Len(args.file),
           s \in 1..Len(args.seed) :
            \E k \in 1..Len(executed) :
                /\ executed[k].chi = args.chi[i]
                /\ executed[k].file = args.file[j]
                /\ executed[k].seed = args.seed[s]

\* C7 (amended): every run is one combination (chi, file, run_number), no
\* combination is run twice, chi changes slowest and run_number fastest, the
\* k-th run takes the k-th seed of the list cycled, and a loop that ends
\* normally has run every combination once.
C7_RunsAreProductWithCycledSeeds ==
    /\ \A k \in 1..Len(executed) :
         /\ [chi |-> executed[k].chi, file |-> executed[k].file,
             run_number |-> executed[k].run_number] \in Combinations
         /\ \A n \in 1..Len(args.seed) :
              (k - n) % Len(args.seed) = 0 => executed[k].seed = args.seed[n]
    /\ \A c \in Combinations : Cardinality(RunsOf(c)) <= 1
    /\ \A k \in 1..(Len(executed) - 1) :
         \/ executed[k].chi < executed[k + 1].chi
         \/ /\ executed[k].chi = executed[k + 1].chi
            /\ executed[k].file < executed[k + 1].file
         \/ /\ executed[k].chi = executed[k + 1].chi
            /\ executed[k].file = executed[k + 1].file
            /\ executed[k].run_number < executed[k + 1].run_number
    /\ pc = "done" => \A c \in Combinations : Cardinality(RunsOf(c)) = 1

\* a loop that ended normally with fewer runs than seeds, and one in which
\* the seeds wrapped around, are both reached; the witness is the first
C7_Witness ==
    /\ pc = "done"
    /\ Len(executed) >= 1
    /\ Len(executed) < Len(args.seed)

\* C8: a non-zero exit code is only logged: the copy is attempted, nothing
\* is raised and the loop goes on.
C8_NonZeroExitIsNotFatal ==
    (it > 0 /\ last.returncode # 0) =>
        /\ last.exit_warning
        /\ last.copy_attempted
        /\ last.error = "none"
        /\ pc # "crashed"

\* C9 as claimed: the per-process size is floor(E / P), the effective size
\* never exceeds E, and the warning is logged exactly when it differs from E.
C9_PerProcessSizeIsFloor ==
    it > 0 =>
        /\ \E q \in 0..args.rg_ensemble_size :
             /\ q * args.nproc <= args.rg_ensemble_size
             /\ args.rg_ensemble_size < (q + 1) * args.nproc
             /\ last.cmd[2] = q
        /\ \E q \in 0..args.reneel_ensemble_size :
             /\ q * args.nproc <= args.reneel_ensemble_size
             /\ args.reneel_ensemble_size < (q + 1) * args.nproc
             /\ last.cmd[3] = q
        /\ last.cmd[2] * args.nproc <= args.rg_ensemble_size
        /\ last.cmd[3] * args.nproc <= args.reneel_ensemble_size
        /\ last.rg_warning <=> (last.cmd[2] * args.nproc # args.rg_ensemble_size)
        /\ last.reneel_warning <=>
             (last.cmd[3] * args.nproc # args.reneel_ensemble_size)

\* what C9 (amended) says of one ensemble size E, the size q passed for it
\* and the warning w, with P processors
SizeRule(E, P, q, w) ==
    /\ q >= 1
    /\ E >= P => /\ q * P <= E
                 /\ E < (q + 1) * P
    /\ E < P => /\ q = 1
                /\ q * P > E
    /\ w <=> (q * P # E)

\* C9 (amended): the per-process size is floor(E / P) but at least 1, so the
\* effective size is the largest multiple of P up to E when E >= P and is
\* P, more than E, when E < P; the warning is logged exactly when the
\* effective size differs from E.
C9_PerProcessSizeIsFloorAtLeastOne ==
    it > 0 =>
        /\ SizeRule(args.rg_ensemble_size, args.nproc, last.cmd[2],
                    last.rg_warning)
        /\ SizeRule(args.reneel_ensemble_size, args.nproc, last.cmd[3],
                    last.reneel_warning)

\* a run with fewer trials asked for than processors, and one with an
\* ensemble size that is no multiple of the processor count
C9_Witness ==
    /\ it > 0
    /\ args.rg_ensemble_size < args.nproc
    /\ last.rg_warning
    /\ args.reneel_ensemble_size > args.nproc
    /\ last.reneel_warning

\* the files a ReneelRun needs: the edgelist and its three companions
Companions == {"edgelist", "clean", "degree", "info"}

\* C11: when the edgelist of a run or one of its clean_, degree_ and info_
\* files does not exist, the iteration ends with the FileNotFoundError of the
\* constructor: no scratch directory is made, the executable is not run, no
\* copy is attempted and the output directory is as it was.
C11_MissingInputStopsBeforeTheRun ==
    [][(/\ pc = "loop"
        /\ it' = it + 1
        /\ \E kind \in Companions :
             <<Product(args)[it + 1].file, kind>> \in missing)
       => /\ pc' = "crashed"
          /\ last'.error = "FileNotFoundError"
          /\ last'.stage = "construct"
          /\ last'.tmpdir = ""
          /\ ~last'.copy_attempted
          /\ last'.written = {}
          /\ scratch' = scratch
          /\ cwd' = cwd
          /\ executed' = executed
          /\ outdir' = outdir]_vars

\* the second file of the command line lacks a companion: the run of the
\* first file has left its output, the run of the second never started
C11_Witness ==
    /\ pc = "crashed"
    /\ last.stage = "construct"
    /\ it > 1
    /\ Len(executed) = it - 1
    /\ outdir # EmptyDict
    /\ \E kind \in Companions \ {"edgelist"} : <<last.file, kind>> \in missing

\* C13: no path of the output directory is written by two runs.
C13_NoOutputPathIsWrittenTwice ==
    \A q \in DOMAIN outdir : Len(outdir[q]) <= 1

\* the runs that wrote the path q of the output directory
WritersOf(q) ==
    IF q \in DOMAIN outdir
    THEN {outdir[q][i] : i \in 1..Len(outdir[q])}
    ELSE {}

\* C14: after a run that completed, the partition_file of its record (and
\* the results_file, with -k) is a path of the output directory that this
\* run wrote.
C14_RecordNamesTheCopiedFile ==
    (it > 0 /\ last.error = "none") =>
        /\ it \in WritersOf(last.partition_file)
        /\ args.keepresults => it \in WritersOf(last.results_file)

\* C17: whenever run_reneel_and_collect_output has ended, by returning or by
\* an exception, the working directory is the one it was called in and no
\* scratch directory exists.
C17_WorkingDirectoryIsRestored ==
    it > 0 => /\ cwd = StartDir
              /\ scratch = {}

\* the sum of f over the keys in S
RECURSIVE SumOf(_, _)
SumOf(f, S) ==
    IF S = {} THEN 0
    ELSE LET x == CHOOSE y \in S : TRUE
         IN  f[x] + SumOf(f, S \ {x})

\* the edges of the aggregated edge map that have v as an end
IncidentEdges(edges, v) == {e \in DOMAIN edges : v = e[1] \/ v = e[2]}

\* C16: the degree of every node, as returned and as written to the degree
\* file, is the number of aggregated edges at the node, the degrees sum to
\* twice the edge count of the info file, and the weight of every node is
\* the sum of the aggregated weights of its edges.
C16_DegreeCountsAggregatedEdges ==
    Completed(DataFile) =>
        LET r == runs[DataFile]
            s == Sorted(DOMAIN r.nodes)
            degree_file == fs[WithPrefix("degree", DataFile)]
            info_file == fs[WithPrefix("info", DataFile)]
        IN  /\ DOMAIN r.degrees = DOMAIN r.nodes
            /\ \A v \in DOMAIN r.nodes :
                 /\ r.degrees[v] = Cardinality(IncidentEdges(r.edges, v))
                 /\ r.nodes[v] = SumOf(r.edges, IncidentEdges(r.edges, v))
            /\ \A i \in 1..Len(s) :
                 /\ ParseInt(degree_file[i][1])
                        = Cardinality(IncidentEdges(r.edges, s[i]))
                 /\ ParseInt(degree_file[i][2])
                        = SumOf(r.edges, IncidentEdges(r.edges, s[i]))
            /\ SumOf(r.degrees, DOMAIN r.degrees)
                   = 2 * ParseInt(info_file[1][2])

\* C12: the name under which the partition of a run is written to the
\* output directory is read by the loader as type partition with the
\* dataset name, the seed, the chi and the scratch id of that run.
C12_NameRoundTrip ==
    available.done =>
        \E e \in available.rows :
            /\ e.type = KindText("partition")
            /\ e.name = PathStem(job.file)
            /\ e.seed = job.seed
            /\ e.chi = job.chi
            /\ e.tmp = job.tmp

\* a run whose file names the loader reads back: an edgelist name with an
\* extension and no '_' in its stem, a seed that is not negative, and a chi
\* whose text has no '-' (zero, or at least 0.0001)
Conventional(j) ==
    /\ PathSuffix(j.file) # <<>>
    /\ \A i \in 1..Len(PathStem(j.file)) : PathStem(j.file)[i] # "_"
    /\ j.seed >= 0
    /\ j.chi = 0 \/ j.chi >= 10

\* the table of C15: one row per node, the row of the node renumbered to i
\* holding the cluster on line i of the partition file, and one column
\* labelled chi or (chi, seed)
LoadedAsClaimed ==
    LET df == partition_df.df
        mapper == Mapper(NodeDict(job))
        partition == listing[partition_df.partition_file]
    IN  /\ df.status = "ok"
        /\ Len(df.rows) = Cardinality(job.nodes)
        /\ Len(partition) = Cardinality(job.nodes)
        /\ \A v \in job.nodes :
             df.rows[mapper[v]] = <<v, ParseInt(partition[mapper[v]][1])>>
        /\ df.columns = <<IF partition_df.include_seed
                          THEN <<job.chi, job.seed>>
                          ELSE <<job.chi>> >>

====
